---------------------------- MODULE Spec2Model ----------------------------
(***************************************************************************)
(* The flatten / locate / splice engine of openxml-edit.js.                *)
(*                                                                         *)
(* A document is a sequence of paragraphs, a paragraph a sequence of runs. *)
(* A run is [rPr, hasT, t, tab, br]: its properties, whether it has a w:t  *)
(* child, the text of that child (a sequence of one-character strings),    *)
(* and the number of w:tab and w:br children.  Indices stored in the       *)
(* position map (p, r, o) are zero-based as in the source; sequences are   *)
(* one-based, so the model reads plist[pos.p + 1][pos.r + 1].              *)
(***************************************************************************)
EXTENDS Integers, Sequences, FiniteSets, TLC

VARIABLES variant, doc, phase, struct, pre, calls, mfull, dets, arg, ret, app

vars == <<variant, doc, phase, struct, pre, calls, mfull, dets, arg, ret, app>>

\* Bounds of the model.
MaxRuns == 2
MaxCalls == 2
MaxDetections == 2
MaxText == 4
MaxNeedle == 2
MaxFull == 3
MaxDocText == 3

--------------------------------------------------------------------------
\* Generic helpers.

Min(a, b) == IF a < b THEN a ELSE b

Max(a, b) == IF a > b THEN a ELSE b

\* String.prototype.slice(a, b) for non-negative a, b: clamped to the text.
Slice(txt, a, b) ==
    LET lo == Min(Max(a, 0), Len(txt))
        hi == Min(Max(b, 0), Len(txt))
    IN  IF hi <= lo THEN <<>> ELSE SubSeq(txt, lo + 1, hi)

\* Array.prototype.splice(idx, 0, x): idx beyond the end appends.
InsertAt(seq, idx, x) ==
    LET k == Min(idx, Len(seq))
    IN  SubSeq(seq, 1, k) \o <<x>> \o SubSeq(seq, k + 1, Len(seq))

RECURSIVE Flatten(_)
Flatten(ss) == IF ss = <<>> THEN <<>> ELSE Head(ss) \o Flatten(Tail(ss))

--------------------------------------------------------------------------
\* Character classes used by the regular expressions of the source.

WhitespaceChars == {" ", "\t", "\n"}

\* The members of [a-zA-Z0-9] the model's texts can contain.
AlnumChars == {"a", "b", "c", "z", "A", "B", "0", "1"}

PunctChars == {".", ",", ";", ":", "!", "?", "(", ")", "[", "]", "{", "}",
               "<", ">", "$", "\"", "'", "-"}

--------------------------------------------------------------------------
\* Run properties, as the XML parser hands them over (ignoreAttributes
\* false, attributeNamePrefix "").  b is the form of rPr["w:b"]: "absent"
\* when there is no such key, "empty" for the empty string the parser gives
\* an element without attributes (<w:b/>), "attrs" for the object it gives
\* an element with attributes.  color is the value of w:val of w:color:
\* "none" when there is no w:color, "noval" when w:color has no w:val.
\* n is a ghost: the number of times a styler has been applied to derive
\* these properties (see StyledMiddle).

BoldForms == {"absent", "empty", "attrs"}

NoProps == [b |-> "absent", i |-> FALSE, u |-> "none", color |-> "none", n |-> 0]

\* A run without a w:rPr child: rNode["w:rPr"] is undefined.
Undefined == [undefined |-> TRUE]

BoldRedProps == [NoProps EXCEPT !.b = "attrs", !.color = "FF0000"]

ItalicProps == [NoProps EXCEPT !.i = TRUE]

RedishColors == {"FF0000", "C00000", "E00000"}

\* The color values the model draws from, and String.prototype.toUpperCase
\* on them (the i flag of the regular expression of line 31).
ColorValues == {"none", "noval", "", "FF0000", "ff0000", "Ff0000", "C00000", "c00000",
                "E00000", "e00000", "7B3F00", "FF00000"}

toUpperCase(c) ==
    CASE c \in {"ff0000", "Ff0000"} -> "FF0000"
      [] c = "c00000" -> "C00000"
      [] c = "e00000" -> "E00000"
      [] OTHER -> c

\* !!rPr[W.B] is false for undefined and for the empty string.
isBoldRed(rPr) ==
    IF rPr = Undefined THEN FALSE
    ELSE LET hasBold == rPr.b = "attrs"
             color == rPr.color
             redish == /\ color \notin {"none", "noval", ""}
                       /\ toUpperCase(color) \in RedishColors
         IN  hasBold /\ redish

\* The mapping an overlay returns.  const out = rPr || {} makes it the
\* mapping passed in, with the forced keys assigned in place (see
\* OverlayCall for what that does to the caller's mapping).
overlayExact(rPr) ==
    LET out == IF rPr = Undefined THEN NoProps ELSE rPr
    IN  [out EXCEPT !.i = TRUE, !.u = "single", !.color = "FF0000"]

overlayBrown(rPr) ==
    LET out == IF rPr = Undefined THEN NoProps ELSE rPr
    IN  [out EXCEPT !.u = "single", !.color = "7B3F00"]

\* A call of an overlay on the mapping rPr: the mapping returned, the
\* value the mapping passed in has afterwards, and whether the two are one
\* object.  out is the argument itself unless the argument is falsy, and
\* the assignments of lines 190-192 and 198-199 go through out.
OverlayCall(fn, rPr) ==
    LET out == IF fn = "overlayExact" THEN overlayExact(rPr) ELSE overlayBrown(rPr)
        aliased == rPr # Undefined
    IN  [out |-> out, argAfter |-> IF aliased THEN out ELSE rPr, sameObject |-> aliased]

--------------------------------------------------------------------------
\* The documents the model draws from.

TextRun(txt, pr) == [rPr |-> pr, hasT |-> TRUE, t |-> txt, tab |-> 0, br |-> 0]

RunKinds ==
    { TextRun(<<"a", "b">>, NoProps),
      TextRun(<<"a", ".">>, BoldRedProps),
      TextRun(<<".", "b">>, NoProps),
      TextRun(<<"a", "b", "c">>, ItalicProps),
      TextRun(<<>>, NoProps),
      [rPr |-> NoProps, hasT |-> FALSE, t |-> <<>>, tab |-> 1, br |-> 0],
      [rPr |-> NoProps, hasT |-> TRUE, t |-> <<"b", "a">>, tab |-> 0, br |-> 1] }

\* The runs rs cut into paragraphs: a new paragraph starts after position k
\* for every k in cuts.
RECURSIVE CutParagraphs(_, _, _, _)
CutParagraphs(rs, cuts, k, cur) ==
    IF k > Len(rs) THEN <<cur>>
    ELSE IF k \in cuts
         THEN <<Append(cur, rs[k])>> \o CutParagraphs(rs, cuts, k + 1, <<>>)
         ELSE CutParagraphs(rs, cuts, k + 1, Append(cur, rs[k]))

\* Every document of one to MaxRuns runs in non-empty paragraphs.
Docs ==
    UNION { { LET ps == CutParagraphs(rs, cuts, 1, <<>>)
              IN  IF Len(rs) \in cuts THEN SubSeq(ps, 1, Len(ps) - 1) ELSE ps
              : cuts \in SUBSET (1 .. (n - 1)), rs \in [1 .. n -> RunKinds] }
            : n \in 1 .. MaxRuns }

Variants == {"part_000", "part_001"}

--------------------------------------------------------------------------
\* indexRuns: the flattened text and the position map.

Synthetic(o) == o = -1 \/ o = -2

\* shouldAddSpace joining only when both characters are letters or digits.
shouldAddSpace_AlnumBoth(v, lastChar, firstChar) ==
    IF v = "part_000" THEN TRUE
    ELSE /\ lastChar \notin WhitespaceChars
         /\ firstChar \notin WhitespaceChars
         /\ (lastChar \in AlnumChars /\ firstChar \in AlnumChars)

\* part_001 lines 78-80 (selective join); part_000 lines 69-74 (always).
shouldAddSpace(v, lastChar, firstChar) ==
    IF v = "part_000" THEN TRUE
    ELSE /\ lastChar \notin WhitespaceChars
         /\ firstChar \notin WhitespaceChars
         /\ \/ (lastChar \in AlnumChars /\ firstChar \in AlnumChars)
            \/ (lastChar \in AlnumChars /\ firstChar \notin PunctChars)

\* IndexRun with the join space added to the text but not to the map.
IndexRun_JoinNotMapped(v, acc, r, pIdx, rIdx) ==
    LET wsCount == r.tab + r.br
        a1 == [full |-> acc.full \o [k \in 1 .. wsCount |-> " "],
               map  |-> acc.map \o
                        [k \in 1 .. wsCount |-> [p |-> pIdx, r |-> rIdx, o |-> -1]]]
        text == r.t
        join == /\ Len(a1.full) > 0
                /\ Len(text) > 0
                /\ shouldAddSpace(v, a1.full[Len(a1.full)], text[1])
        a2 == IF join THEN [full |-> Append(a1.full, " "), map |-> a1.map] ELSE a1
    IN  IF ~r.hasT THEN a1
        ELSE [full |-> a2.full \o text,
              map  |-> a2.map \o
                       [k \in 1 .. Len(text) |-> [p |-> pIdx, r |-> rIdx, o |-> k - 1]]]

\* One iteration of runs.forEach: what run r (index rIdx of paragraph pIdx)
\* appends to acc = [full, map].
IndexRun(v, acc, r, pIdx, rIdx) ==
    LET wsCount == r.tab + r.br
        a1 == [full |-> acc.full \o [k \in 1 .. wsCount |-> " "],
               map  |-> acc.map \o
                        [k \in 1 .. wsCount |-> [p |-> pIdx, r |-> rIdx, o |-> -1]]]
        text == r.t
        join == /\ Len(a1.full) > 0
                /\ Len(text) > 0
                /\ shouldAddSpace(v, a1.full[Len(a1.full)], text[1])
        a2 == IF join
              THEN [full |-> Append(a1.full, " "),
                    map  |-> Append(a1.map, [p |-> pIdx, r |-> rIdx, o |-> -2])]
              ELSE a1
    IN  IF ~r.hasT THEN a1
        ELSE [full |-> a2.full \o text,
              map  |-> a2.map \o
                       [k \in 1 .. Len(text) |-> [p |-> pIdx, r |-> rIdx, o |-> k - 1]]]

RECURSIVE IndexRunsFrom(_, _, _, _, _)
IndexRunsFrom(v, paragraphs, pIdx, rIdx, acc) ==
    IF pIdx >= Len(paragraphs) THEN acc
    ELSE IF rIdx >= Len(paragraphs[pIdx + 1])
         THEN IndexRunsFrom(v, paragraphs, pIdx + 1, 0, acc)
         ELSE IndexRunsFrom(v, paragraphs, pIdx, rIdx + 1,
                            IndexRun(v, acc, paragraphs[pIdx + 1][rIdx + 1], pIdx, rIdx))

indexRuns(v, paragraphs) ==
    LET acc == IndexRunsFrom(v, paragraphs, 0, 0, [full |-> <<>>, map |-> <<>>])
    IN  [full |-> acc.full, map |-> acc.map, plist |-> paragraphs]

NoStruct == [full |-> <<>>, map |-> <<>>, plist |-> <<>>]

--------------------------------------------------------------------------
\* applyStyleToRange.

\* The styler the caller passes: "exact" is overlayExact, "brown" is
\* overlayBrown (part_001 line 294).
Stylers == {"exact", "brown"}

\* styler(clone(baseRPr), ...), line 144; the ghost n counts the application.
StyledMiddle(styler, baseRPr) ==
    LET out == IF styler = "exact" THEN overlayExact(baseRPr) ELSE overlayBrown(baseRPr)
    IN  [out EXCEPT !.n = @ + 1]

mkRun(text, pr) == [rPr |-> pr, hasT |-> TRUE, t |-> text, tab |-> 0, br |-> 0]

\* The children other than w:rPr and w:t assigned to every fragment.
copyNonTextChildren_AllFragments(runsNew, origRun) ==
    [k \in 1 .. Len(runsNew) |->
        [runsNew[k] EXCEPT !.tab = origRun.tab, !.br = origRun.br]]

\* copyNonTextChildren and Object.assign(runsNew[0], extras).
copyNonTextChildren(runsNew, origRun) ==
    [runsNew EXCEPT ![1] = [@ EXCEPT !.tab = origRun.tab, !.br = origRun.br]]

\* SplitRun with the after fragment given the styled properties.
SplitRun_AfterStyled(rNode, o, take, styler) ==
    LET txt == rNode.t
        beforeText == Slice(txt, 0, o)
        midText == Slice(txt, o, o + take)
        afterText == Slice(txt, o + take, Len(txt))
        baseRPr == rNode.rPr
        runsNew == (IF beforeText # <<>> THEN <<mkRun(beforeText, baseRPr)>> ELSE <<>>)
                   \o <<mkRun(midText, StyledMiddle(styler, baseRPr))>>
                   \o (IF afterText # <<>>
                       THEN <<mkRun(afterText, StyledMiddle(styler, baseRPr))>> ELSE <<>>)
    IN  copyNonTextChildren(runsNew, rNode)

\* SplitRun without the after fragment.
SplitRun_NoAfter(rNode, o, take, styler) ==
    LET txt == rNode.t
        beforeText == Slice(txt, 0, o)
        midText == Slice(txt, o, o + take)
        baseRPr == rNode.rPr
        runsNew == (IF beforeText # <<>> THEN <<mkRun(beforeText, baseRPr)>> ELSE <<>>)
                   \o <<mkRun(midText, StyledMiddle(styler, baseRPr))>>
    IN  copyNonTextChildren(runsNew, rNode)

\* The fragments that replace rNode when [o, o + take) of its text is styled.
SplitRun(rNode, o, take, styler) ==
    LET txt == rNode.t
        beforeText == Slice(txt, 0, o)
        midText == Slice(txt, o, o + take)
        afterText == Slice(txt, o + take, Len(txt))
        baseRPr == rNode.rPr
        runsNew == (IF beforeText # <<>> THEN <<mkRun(beforeText, baseRPr)>> ELSE <<>>)
                   \o <<mkRun(midText, StyledMiddle(styler, baseRPr))>>
                   \o (IF afterText # <<>> THEN <<mkRun(afterText, baseRPr)>> ELSE <<>>)
    IN  copyNonTextChildren(runsNew, rNode)

\* pRuns.splice(pos.r, 1, ...runsNew)
SpliceRuns(pRuns, r, runsNew) ==
    SubSeq(pRuns, 1, r) \o runsNew \o SubSeq(pRuns, r + 2, Len(pRuns))

\* The entries the rebuild loop produces for the runs of paragraph p, in the
\* order it produces them (lines 172-179).
ParagraphEntries(newRuns, p) ==
    Flatten([rIdx \in 1 .. Len(newRuns) |->
               IF ~newRuns[rIdx].hasT THEN <<>>
               ELSE [off \in 1 .. Len(newRuns[rIdx].t) |->
                       [p |-> p, r |-> rIdx - 1, o |-> off - 1]]])

\* map.splice(paraStartIdx, 0, entry) for each entry in turn (line 177).
RECURSIVE SpliceEntries(_, _, _)
SpliceEntries(map, paraStartIdx, entries) ==
    IF entries = <<>> THEN map
    ELSE SpliceEntries(InsertAt(map, paraStartIdx, Head(entries)),
                       paraStartIdx, Tail(entries))

\* RebuildParagraphMap leaving the map as it is.
RebuildParagraphMap_Stale(map, newRuns, p) == map

\* Lines 161-179: drop the entries of paragraph p and re-insert entries for
\* its current runs at the place the paragraph started.
RebuildParagraphMap(map, newRuns, p) ==
    LET hits == {gi \in 1 .. Len(map) : map[gi].p = p}
        paraStartIdx == IF hits = {} THEN 0
                        ELSE (CHOOSE gi \in hits : \A g \in hits : gi <= g) - 1
        kept == SelectSeq(map, LAMBDA e : e.p # p)
    IN  SpliceEntries(kept, paraStartIdx, ParagraphEntries(newRuns, p))

\* StyleLoop without the test of line 113: a synthetic entry is handled
\* like a Real one.
RECURSIVE StyleLoop_NoSyntheticSkip(_, _, _, _, _)
StyleLoop_NoSyntheticSkip(v, st, i, end, styler) ==
    IF i >= end THEN [plist |-> st.plist, map |-> st.map, threw |-> FALSE, hang |-> FALSE]
    ELSE
    LET resolves == /\ i < Len(st.map)
                    /\ st.map[i + 1].p < Len(st.plist)
                    /\ st.map[i + 1].r < Len(st.plist[st.map[i + 1].p + 1])
    IN  IF ~resolves
        THEN IF v = "part_000"
             THEN StyleLoop_NoSyntheticSkip(v, st, i + 1, end, styler)
             ELSE [plist |-> st.plist, map |-> st.map, threw |-> TRUE, hang |-> FALSE]
        ELSE
        LET pos == st.map[i + 1]
            pRuns == st.plist[pos.p + 1]
            rNode == pRuns[pos.r + 1]
            take == Min(Len(rNode.t) - pos.o, end - i)
            newRuns == SpliceRuns(pRuns, pos.r, SplitRun(rNode, pos.o, take, styler))
            next == [plist |-> [st.plist EXCEPT ![pos.p + 1] = newRuns],
                     map   |-> RebuildParagraphMap(st.map, newRuns, pos.p)]
        IN  IF ~rNode.hasT THEN StyleLoop_NoSyntheticSkip(v, st, i + 1, end, styler)
            ELSE IF take <= 0
                 THEN [plist |-> next.plist, map |-> next.map,
                       threw |-> FALSE, hang |-> TRUE]
                 ELSE StyleLoop_NoSyntheticSkip(v, next, i + take, end, styler)

\* The for loop of lines 108-183, from cursor i.  st = [plist, map]; the
\* result adds threw (a TypeError left the loop) and hang (the cursor did
\* not advance).
RECURSIVE StyleLoop(_, _, _, _, _)
StyleLoop(v, st, i, end, styler) ==
    IF i >= end THEN [plist |-> st.plist, map |-> st.map, threw |-> FALSE, hang |-> FALSE]
    ELSE
    LET resolves == /\ i < Len(st.map)
                    /\ st.map[i + 1].p < Len(st.plist)
                    /\ st.map[i + 1].r < Len(st.plist[st.map[i + 1].p + 1])
    IN  IF ~resolves
        THEN IF v = "part_000"
             THEN StyleLoop(v, st, i + 1, end, styler)
             ELSE [plist |-> st.plist, map |-> st.map, threw |-> TRUE, hang |-> FALSE]
        ELSE
        LET pos == st.map[i + 1]
            pRuns == st.plist[pos.p + 1]
            rNode == pRuns[pos.r + 1]
            take == Min(Len(rNode.t) - pos.o, end - i)
            newRuns == SpliceRuns(pRuns, pos.r, SplitRun(rNode, pos.o, take, styler))
            next == [plist |-> [st.plist EXCEPT ![pos.p + 1] = newRuns],
                     map   |-> RebuildParagraphMap(st.map, newRuns, pos.p)]
        IN  IF Synthetic(pos.o) THEN StyleLoop(v, st, i + 1, end, styler)
            ELSE IF ~rNode.hasT THEN StyleLoop(v, st, i + 1, end, styler)
            ELSE IF take <= 0
                 THEN [plist |-> next.plist, map |-> next.map,
                       threw |-> FALSE, hang |-> TRUE]
                 ELSE StyleLoop(v, next, i + take, end, styler)

\* applyStyleToRange(struct, start, end, styler): the struct it leaves, and
\* whether it threw.
applyStyleToRange(v, s, start, end, styler) ==
    IF start < 0 \/ end <= start \/ end > Len(s.map)
    THEN [plist |-> s.plist, map |-> s.map, threw |-> FALSE, hang |-> FALSE]
    ELSE StyleLoop(v, [plist |-> s.plist, map |-> s.map], start, end, styler)

\* StyleStep with the cursor left where it is on a synthetic entry.
StyleStep_SyntheticNoAdvance(v, st, i, end, styler) ==
    LET resolves == /\ i < Len(st.map)
                    /\ st.map[i + 1].p < Len(st.plist)
                    /\ st.map[i + 1].r < Len(st.plist[st.map[i + 1].p + 1])
    IN  IF ~resolves
        THEN IF v = "part_000"
             THEN [plist |-> st.plist, map |-> st.map, i |-> i + 1, threw |-> FALSE,
                   kind |-> "unresolved"]
             ELSE [plist |-> st.plist, map |-> st.map, i |-> i, threw |-> TRUE,
                   kind |-> "unresolved"]
        ELSE
        LET pos == st.map[i + 1]
            pRuns == st.plist[pos.p + 1]
            rNode == pRuns[pos.r + 1]
            take == Min(Len(rNode.t) - pos.o, end - i)
            newRuns == SpliceRuns(pRuns, pos.r, SplitRun(rNode, pos.o, take, styler))
        IN  IF Synthetic(pos.o)
            THEN [plist |-> st.plist, map |-> st.map, i |-> i, threw |-> FALSE,
                  kind |-> "synthetic"]
            ELSE IF ~rNode.hasT
            THEN [plist |-> st.plist, map |-> st.map, i |-> i + 1, threw |-> FALSE,
                  kind |-> "notext"]
            ELSE [plist |-> [st.plist EXCEPT ![pos.p + 1] = newRuns],
                  map   |-> RebuildParagraphMap(st.map, newRuns, pos.p),
                  i     |-> i + take,
                  threw |-> FALSE,
                  kind  |-> "split"]

\* One iteration of the for loop of lines 108-183 (part_000 lines 96-175)
\* at cursor i < end: the runs, the map and the cursor it leaves, and
\* whether a TypeError left the loop; kind names the branch taken (part_001
\* dereferences map[i],
\* plist[pos.p] and pRuns[pos.r] unguarded; part_000 tests them and skips).
StyleStep(v, st, i, end, styler) ==
    LET resolves == /\ i < Len(st.map)
                    /\ st.map[i + 1].p < Len(st.plist)
                    /\ st.map[i + 1].r < Len(st.plist[st.map[i + 1].p + 1])
    IN  IF ~resolves
        THEN IF v = "part_000"
             THEN [plist |-> st.plist, map |-> st.map, i |-> i + 1, threw |-> FALSE,
                   kind |-> "unresolved"]
             ELSE [plist |-> st.plist, map |-> st.map, i |-> i, threw |-> TRUE,
                   kind |-> "unresolved"]
        ELSE
        LET pos == st.map[i + 1]
            pRuns == st.plist[pos.p + 1]
            rNode == pRuns[pos.r + 1]
            take == Min(Len(rNode.t) - pos.o, end - i)
            newRuns == SpliceRuns(pRuns, pos.r, SplitRun(rNode, pos.o, take, styler))
        IN  IF Synthetic(pos.o)
            THEN [plist |-> st.plist, map |-> st.map, i |-> i + 1, threw |-> FALSE,
                  kind |-> "synthetic"]
            ELSE IF ~rNode.hasT
            THEN [plist |-> st.plist, map |-> st.map, i |-> i + 1, threw |-> FALSE,
                  kind |-> "notext"]
            ELSE [plist |-> [st.plist EXCEPT ![pos.p + 1] = newRuns],
                  map   |-> RebuildParagraphMap(st.map, newRuns, pos.p),
                  i     |-> i + take,
                  threw |-> FALSE,
                  kind  |-> "split"]

\* The test of lines 101-106: the call returns before its loop.
RangeRejected(s, start, end) == start < 0 \/ end <= start \/ end > Len(s.map)

--------------------------------------------------------------------------
\* The orchestrator: findAll, spanWasBoldRed, annotateDocxWithDetections.

\* String.prototype.indexOf(value, i): the first j >= i at which value
\* occurs in text, or -1.
indexOf(text, value, i) ==
    LET js == {j \in i .. (Len(text) - Len(value)) :
                  SubSeq(text, j + 1, j + Len(value)) = value}
    IN  IF js = {} THEN -1 ELSE CHOOSE j \in js : \A k \in js : j <= k

\* findAllFrom with the scan resumed one character after the start of a
\* match instead of at its end.
RECURSIVE findAllFrom_Overlapping(_, _, _)
findAllFrom_Overlapping(text, value, i) ==
    IF i >= Len(text) THEN <<>>
    ELSE LET j == indexOf(text, value, i)
         IN  IF j < 0 THEN <<>>
             ELSE <<[s |-> j, e |-> j + Len(value)]>>
                  \o findAllFrom_Overlapping(text, value, j + 1)

RECURSIVE findAllFrom(_, _, _)
findAllFrom(text, value, i) ==
    IF i >= Len(text) THEN <<>>
    ELSE LET j == indexOf(text, value, i)
         IN  IF j < 0 THEN <<>>
             ELSE <<[s |-> j, e |-> j + Len(value)]>>
                  \o findAllFrom(text, value, j + Len(value))

findAll(text, value) == IF value = <<>> THEN <<>> ELSE findAllFrom(text, value, 0)

\* findAllOccurrences of eval.js (lines 27-38): the loop from idx.
RECURSIVE findAllOccurrencesFrom(_, _, _)
findAllOccurrencesFrom(text, needle, idx) ==
    IF idx >= Len(text) THEN <<>>
    ELSE LET found == indexOf(text, needle, idx)
         IN  IF found = -1 THEN <<>>
             ELSE <<[s |-> found, e |-> found + Len(needle)]>>
                  \o findAllOccurrencesFrom(text, needle, found + Len(needle))

findAllOccurrences(text, needle) ==
    IF needle = <<>> THEN <<>> ELSE findAllOccurrencesFrom(text, needle, 0)

\* full[k]: undefined outside the text, which RegExp.prototype.test reads
\* as the string "undefined".
CharAt(full, k) == IF k >= 0 /\ k < Len(full) THEN full[k + 1] ELSE "undefined"

\* /\s|[.,;:!?()[\]{}<>$"'\-]|^$/.test(c) for c one character, the empty
\* string or "undefined".
isBoundary(c) == c \in WhitespaceChars \/ c \in PunctChars \/ c = ""

\* hasTokenBoundary looking at the left neighbour only.
hasTokenBoundary_LeftOnly(full, start, end) ==
    LET left == IF start <= 0 THEN " " ELSE CharAt(full, start - 1)
    IN  isBoundary(left)

hasTokenBoundary(full, start, end) ==
    LET left == IF start <= 0 THEN " " ELSE CharAt(full, start - 1)
        right == IF end >= Len(full) THEN " " ELSE CharAt(full, end)
    IN  isBoundary(left) /\ isBoundary(right)

\* spanWasBoldRed of part_001: "true", "false", or "throw" when an entry of
\* the span names no run.
RECURSIVE SpanLoop(_, _, _)
SpanLoop(s, k, end) ==
    IF k >= end THEN "true"
    ELSE IF ~(/\ s.map[k + 1].p < Len(s.plist)
              /\ s.map[k + 1].r < Len(s.plist[s.map[k + 1].p + 1]))
         THEN "throw"
         ELSE IF ~isBoldRed(s.plist[s.map[k + 1].p + 1][s.map[k + 1].r + 1].rPr)
              THEN "false"
              ELSE SpanLoop(s, k + 1, end)

spanWasBoldRed(s, start, end) ==
    IF start < 0 \/ end <= start \/ end > Len(s.map) THEN "false"
    ELSE SpanLoop(s, start, end)

\* What the external text extractor (mammoth) may return for the document:
\* the flattener's own text, or the raw text in which runs of a paragraph
\* are concatenated, a tab is "\t", a break "\n", and every paragraph ends
\* with two newlines.
RawRunText(r) ==
    [k \in 1 .. r.tab |-> "\t"] \o [k \in 1 .. r.br |-> "\n"] \o (IF r.hasT THEN r.t ELSE <<>>)

RawText(paragraphs) ==
    Flatten([pi \in 1 .. Len(paragraphs) |->
               Flatten([ri \in 1 .. Len(paragraphs[pi]) |-> RawRunText(paragraphs[pi][ri])])
               \o <<"\n", "\n">>])

ExtractRawText(v, paragraphs) == {indexRuns(v, paragraphs).full, RawText(paragraphs)}

\* The detection values the model draws from.
DetValues == { <<>>, <<"a">>, <<"b">>, <<"b", "a">>, <<"b", " ", "a">>, <<"z">> }

\* Lines 280-301: the loop over the ranges found in the extractor's text,
\* from range j.  st = [full, map, plist, caught, hang].
RECURSIVE RangeLoop(_, _, _, _)
RangeLoop(st, val, j, nRanges) ==
    IF j >= nRanges \/ st.hang THEN st
    ELSE
    LET xmlRanges == findAll(st.full, val)
    IN  IF Len(xmlRanges) <= j THEN RangeLoop(st, val, j + 1, nRanges)
        ELSE
        LET xmlS == xmlRanges[j + 1].s
            xmlE == xmlRanges[j + 1].e
            wasBR == spanWasBoldRed(st, xmlS, xmlE)
            res == applyStyleToRange("part_001", st, xmlS, xmlE,
                                     IF wasBR = "true" THEN "exact" ELSE "brown")
        IN  IF wasBR = "throw"
            THEN RangeLoop([st EXCEPT !.caught = @ + 1], val, j + 1, nRanges)
            ELSE RangeLoop([st EXCEPT !.plist = res.plist, !.map = res.map,
                                      !.caught = @ + (IF res.threw THEN 1 ELSE 0),
                                      !.hang = res.hang],
                           val, j + 1, nRanges)

\* ProcessDetection with the extractor's offsets used on the struct as
\* they are, instead of the offsets of the value in the flattened text.
RECURSIVE RangeLoop_ExtractorOffsets(_, _, _)
RangeLoop_ExtractorOffsets(st, ranges, j) ==
    IF j >= Len(ranges) \/ st.hang THEN st
    ELSE
    LET wasBR == spanWasBoldRed(st, ranges[j + 1].s, ranges[j + 1].e)
        res == applyStyleToRange("part_001", st, ranges[j + 1].s, ranges[j + 1].e,
                                 IF wasBR = "true" THEN "exact" ELSE "brown")
    IN  IF wasBR = "throw"
        THEN RangeLoop_ExtractorOffsets([st EXCEPT !.caught = @ + 1], ranges, j + 1)
        ELSE RangeLoop_ExtractorOffsets(
                 [st EXCEPT !.plist = res.plist, !.map = res.map,
                            !.caught = @ + (IF res.threw THEN 1 ELSE 0),
                            !.hang = res.hang],
                 ranges, j + 1)

ProcessDetection_ExtractorOffsets(s, extracted, val) ==
    LET st0 == [full |-> s.full, map |-> s.map, plist |-> s.plist,
                caught |-> 0, hang |-> FALSE]
    IN  IF val = <<>> THEN st0
        ELSE RangeLoop_ExtractorOffsets(st0, findAll(extracted, val), 0)

\* One iteration of the loop over detections (lines 260-302).
ProcessDetection(s, extracted, val) ==
    LET st0 == [full |-> s.full, map |-> s.map, plist |-> s.plist,
                caught |-> 0, hang |-> FALSE]
        ranges == findAll(extracted, val)
    IN  IF val = <<>> THEN st0
        ELSE IF ranges = <<>> THEN st0
        ELSE RangeLoop(st0, val, 0, Len(ranges))

\* ProcessRange without the try of line 284: the TypeError leaves the loops.
ProcessRange_NoCatch(st, val, j) ==
    LET xmlRanges == findAll(st.full, val)
    IN  IF Len(xmlRanges) <= j
        THEN [plist |-> st.plist, map |-> st.map, outcome |-> "absent"]
        ELSE
        LET xmlS == xmlRanges[j + 1].s
            xmlE == xmlRanges[j + 1].e
            wasBR == spanWasBoldRed(st, xmlS, xmlE)
            res == applyStyleToRange("part_001", st, xmlS, xmlE,
                                     IF wasBR = "true" THEN "exact" ELSE "brown")
        IN  IF wasBR = "throw"
            THEN [plist |-> st.plist, map |-> st.map, outcome |-> "escaped"]
            ELSE [plist |-> res.plist, map |-> res.map,
                  outcome |-> IF res.threw THEN "escaped" ELSE "styled"]

\* The body of the loop over ranges (lines 284-300) for range j of the
\* extractor's text: what it leaves of the runs and the map, and its
\* outcome: "absent" when the flattened text has no range j, "styled" when
\* applyStyleToRange returned, "caught" when the catch of line 297 took an
\* exception ("escaped" would be an exception leaving the loop).
ProcessRange(st, val, j) ==
    LET xmlRanges == findAll(st.full, val)
    IN  IF Len(xmlRanges) <= j
        THEN [plist |-> st.plist, map |-> st.map, outcome |-> "absent"]
        ELSE
        LET xmlS == xmlRanges[j + 1].s
            xmlE == xmlRanges[j + 1].e
            wasBR == spanWasBoldRed(st, xmlS, xmlE)
            res == applyStyleToRange("part_001", st, xmlS, xmlE,
                                     IF wasBR = "true" THEN "exact" ELSE "brown")
        IN  IF wasBR = "throw"
            THEN [plist |-> st.plist, map |-> st.map, outcome |-> "caught"]
            ELSE [plist |-> res.plist, map |-> res.map,
                  outcome |-> IF res.threw THEN "caught" ELSE "styled"]

\* The number of iterations the loop of line 280 makes for value val.
RangeCount(extracted, val) == IF val = <<>> THEN 0 ELSE Len(findAll(extracted, val))

--------------------------------------------------------------------------
\* evaluateDetections of eval.js and the ranges makeReviewedDocumentDocx
\* of text-masker.js derives from its result.

\* "FW1" stands for the one character U+FF11, FULLWIDTH DIGIT ONE, which
\* NFKC maps to "1"; NFKC leaves the other characters of the model as they
\* are.
nfkc(s) == [k \in 1 .. Len(s) |-> IF s[k] = "FW1" THEN "1" ELSE s[k]]

DigitChars == {"0", "1", "2", "3", "4", "5", "6", "7", "8", "9"}

\* s.replace(/[^\d+]/g, "")
normalizePhone(s) == SelectSeq(s, LAMBDA c : c \in DigitChars \cup {"+"})

isEmail(s) == \E k \in 1 .. Len(s) : s[k] = "@"

\* The least number of characters of [\d ()-] in /^[+]?[\d ()-]{6,}$/.
PhoneMinLen == 6

isPhone(s) ==
    LET body == IF s # <<>> /\ s[1] = "+" THEN Tail(s) ELSE s
    IN  /\ Len(body) >= PhoneMinLen
        /\ \A k \in 1 .. Len(body) : body[k] \in DigitChars \cup {" ", "(", ")", "-"}

Sentinel == [start |-> -1, end |-> -1, normalized |-> TRUE]

\* HitsOf with a phone-like value searched like any other value.
HitsOf_PhoneLiteral(text, v) ==
    LET occ == findAllOccurrences(text, v)
    IN  [k \in 1 .. Len(occ) |->
           [start |-> occ[k].s, end |-> occ[k].e, normalized |-> FALSE]]

\* Lines 121-128: the hits of value v in text.
HitsOf(text, v) ==
    IF isPhone(v)
    THEN LET normDoc == normalizePhone(text)
             normVal == normalizePhone(v)
             idxes == findAllOccurrences(normDoc, normVal)
         IN  IF idxes # <<>> THEN <<Sentinel>> ELSE <<>>
    ELSE LET occ == findAllOccurrences(text, v)
         IN  [k \in 1 .. Len(occ) |->
                [start |-> occ[k].s, end |-> occ[k].e, normalized |-> FALSE]]

\* The loop of lines 111-161 from detection k (one-based) on; res holds
\* matched, notFound and partials, detections being named by their index.
RECURSIVE EvaluateFrom(_, _, _, _)
EvaluateFrom(text, detections, k, res) ==
    IF k > Len(detections) THEN res
    ELSE
    LET v == nfkc(detections[k])
        hits == HitsOf(text, v)
        good == SelectSeq(hits, LAMBDA h :
                    h.normalized \/ hasTokenBoundary(text, h.start, h.end) \/ isEmail(v))
        status == IF \E x \in 1 .. Len(good) : good[x].start = -1
                  THEN "partial" ELSE "exact"
    IN  IF v = <<>> \/ hits = <<>>
        THEN EvaluateFrom(text, detections, k + 1,
                          [res EXCEPT !.notFound = Append(@, k)])
        ELSE IF good = <<>>
        THEN EvaluateFrom(text, detections, k + 1,
                          [res EXCEPT !.partials = Append(@, k)])
        ELSE EvaluateFrom(text, detections, k + 1,
                          [res EXCEPT !.matched =
                              Append(@, [det |-> k, hits |-> good, status |-> status])])

evaluateDetections(docText, detections) ==
    EvaluateFrom(nfkc(docText), detections, 1,
                 [matched |-> <<>>, notFound |-> <<>>, partials |-> <<>>])

\* String.prototype.trim on the characters of the model.
RECURSIVE trim(_)
trim(s) ==
    IF s = <<>> THEN s
    ELSE IF s[1] \in WhitespaceChars THEN trim(Tail(s))
    ELSE IF s[Len(s)] \in WhitespaceChars THEN trim(SubSeq(s, 1, Len(s) - 1))
    ELSE s

\* The key of byValue for a detection value (line 100).
ValueKey(value) == nfkc(trim(value))

\* The keys of byValue in the order of their insertion (lines 98-103).
RECURSIVE KeysFrom(_, _, _)
KeysFrom(detections, k, keys) ==
    IF k > Len(detections) THEN keys
    ELSE LET key == ValueKey(detections[k])
         IN  KeysFrom(detections, k + 1,
                      IF \E x \in 1 .. Len(keys) : keys[x] = key THEN keys
                      ELSE Append(keys, key))

\* byValue.get(key).length
JsonCount(detections, key) ==
    Cardinality({k \in 1 .. Len(detections) : ValueKey(detections[k]) = key})

\* occurrences.get(val) || [] after the loop of lines 111-161: line 156
\* appends the good hits of every matched detection whose v is val.
OccurrencesGet(detections, matched, val) ==
    Flatten([m \in 1 .. Len(matched) |->
               IF nfkc(detections[matched[m].det]) = val THEN matched[m].hits ELSE <<>>])

\* Lines 164-178: the duplicates list.
Duplicates(detections, matched) ==
    LET keys == KeysFrom(detections, 1, <<>>)
        occLen(val) == Len(OccurrencesGet(detections, matched, val))
        listed == SelectSeq(keys, LAMBDA val : JsonCount(detections, val) > occLen(val))
    IN  [x \in 1 .. Len(listed) |->
           [value |-> listed[x],
            countInJson |-> JsonCount(detections, listed[x]),
            countInDoc |-> occLen(listed[x]),
            extra |-> JsonCount(detections, listed[x]) - occLen(listed[x])]]

\* mergeRanges and maskTextRanges of text-masker.js.  A range is
\* [start, end] with zero-based offsets, end exclusive.

\* [...ranges].sort((a, b) => a.start - b.start): the sort is stable, so a
\* range goes behind the ranges with the same start that came before it.
RECURSIVE SortByStart(_)
SortByStart(ranges) ==
    IF ranges = <<>> THEN <<>>
    ELSE LET init == SortByStart(SubSeq(ranges, 1, Len(ranges) - 1))
             x == ranges[Len(ranges)]
             k == Cardinality({y \in 1 .. Len(init) : init[y].start <= x.start})
         IN  SubSeq(init, 1, k) \o <<x>> \o SubSeq(init, k + 1, Len(init))

\* MergeFrom joining a range to the last one only when it begins before
\* the end of the last one.
RECURSIVE MergeFrom_StrictOverlap(_, _, _)
MergeFrom_StrictOverlap(sorted, i, merged) ==
    IF i > Len(sorted) THEN merged
    ELSE LET current == sorted[i]
             last == merged[Len(merged)]
         IN  IF current.start < last.end
             THEN MergeFrom_StrictOverlap(sorted, i + 1,
                      [merged EXCEPT ![Len(merged)].end = Max(last.end, current.end)])
             ELSE MergeFrom_StrictOverlap(sorted, i + 1, Append(merged, current))

\* The loop of lines 271-282 from index i (one-based) of sorted.
RECURSIVE MergeFrom(_, _, _)
MergeFrom(sorted, i, merged) ==
    IF i > Len(sorted) THEN merged
    ELSE LET current == sorted[i]
             last == merged[Len(merged)]
         IN  IF current.start <= last.end
             THEN MergeFrom(sorted, i + 1,
                            [merged EXCEPT ![Len(merged)].end = Max(last.end, current.end)])
             ELSE MergeFrom(sorted, i + 1, Append(merged, current))

mergeRanges(ranges) ==
    IF ranges = <<>> THEN <<>>
    ELSE LET sorted == SortByStart(ranges)
         IN  MergeFrom(sorted, 2, <<sorted[1]>>)

\* String.prototype.substring(a, b): both clamped to the text, and swapped
\* when a > b.
substring(text, a, b) ==
    LET ca == Min(Max(a, 0), Len(text))
        cb == Min(Max(b, 0), Len(text))
    IN  SubSeq(text, Min(ca, cb) + 1, Max(ca, cb))

\* originalText.replace(/[^\s]/g, 'X')
MaskChars(txt) == [k \in 1 .. Len(txt) |-> IF txt[k] \in WhitespaceChars THEN txt[k] ELSE "X"]

\* The loop of lines 59-69 from range k (one-based) of sortedRanges.
RECURSIVE MaskFrom(_, _, _, _, _)
MaskFrom(text, sortedRanges, k, result, lastEnd) ==
    IF k > Len(sortedRanges) THEN result \o substring(text, lastEnd, Len(text))
    ELSE LET range == sortedRanges[k]
         IN  MaskFrom(text, sortedRanges, k + 1,
                      result \o substring(text, lastEnd, range.start)
                             \o MaskChars(substring(text, range.start, range.end)),
                      range.end)

maskTextRanges(text, ranges) ==
    IF ranges = <<>> THEN text
    ELSE MaskFrom(text, SortByStart(ranges), 1, <<>>, 0)

\* makeReviewedDocumentDocx, lines 1892-1898: the ranges to style.
ReviewRanges(matchedHits) ==
    Flatten([m \in 1 .. Len(matchedHits) |->
               LET hs == SelectSeq(matchedHits[m].hits, LAMBDA h : h.start # -1)
               IN  [x \in 1 .. Len(hs) |->
                      [start |-> hs[x].start, end |-> hs[x].end,
                       kind |-> IF matchedHits[m].status = "exact"
                                THEN "exact" ELSE "partial"]]])

--------------------------------------------------------------------------
\* arg and ret hold a call made on one of the functions by itself: the
\* arguments, and what the call returned and left behind.
NoArg == [fn |-> "none"]

NoRet == [done |-> FALSE]

\* app is the state of the App component; it is NoApp where the component
\* is not part of what is run.
NoApp == [mounted |-> FALSE]

Init ==
    /\ variant \in Variants
    /\ doc \in Docs
    /\ phase = "parsed"
    /\ struct = NoStruct
    /\ pre = NoStruct
    /\ calls = <<>>
    /\ mfull = <<>>
    /\ dets = <<>>
    /\ arg = NoArg
    /\ ret = NoRet
    /\ app = NoApp

\* A caller parses the document and indexes it.
IndexRunsCall ==
    /\ phase = "parsed"
    /\ phase' = "indexed"
    /\ struct' = indexRuns(variant, doc)
    /\ pre' = struct'
    /\ UNCHANGED <<variant, doc, calls, mfull, dets, arg, ret, app>>

\* A caller applies a style to a range of the indexed document.
ApplyCall(start, end, styler) ==
    /\ phase = "indexed"
    /\ Len(calls) < MaxCalls
    /\ LET res == applyStyleToRange(variant, struct, start, end, styler)
       IN  /\ ~res.hang
           /\ struct' = [struct EXCEPT !.plist = res.plist, !.map = res.map]
           /\ calls' = Append(calls, [start |-> start, end |-> end,
                                      styler |-> styler, threw |-> res.threw])
    /\ pre' = struct
    /\ UNCHANGED <<variant, doc, phase, mfull, dets, arg, ret, app>>

Apply ==
    \E start \in 0 .. Len(struct.full), end \in 0 .. Len(struct.full), styler \in Stylers :
        /\ start < end
        /\ ApplyCall(start, end, styler)

\* annotateDocxWithDetections up to its loop: the extractor's text and the
\* indexed struct (lines 241-257).
AnnotateBegin ==
    /\ phase = "parsed"
    /\ variant = "part_001"
    /\ phase' = "annotating"
    /\ mfull' \in ExtractRawText(variant, doc)
    /\ struct' = indexRuns(variant, doc)
    /\ pre' = struct'
    /\ UNCHANGED <<variant, doc, calls, dets, arg, ret, app>>

\* The next detection of the list is processed.
Detect(val) ==
    /\ phase = "annotating"
    /\ Len(dets) < MaxDetections
    /\ LET res == ProcessDetection(struct, mfull, val)
       IN  /\ ~res.hang
           /\ struct' = [struct EXCEPT !.plist = res.plist, !.map = res.map]
           /\ dets' = Append(dets, [value |-> val, caught |-> res.caught])
    /\ pre' = struct
    /\ UNCHANGED <<variant, doc, phase, calls, mfull, arg, ret, app>>

DetectNext == \E val \in DetValues : Detect(val)

NextAnnotate == AnnotateBegin \/ DetectNext

SpecAnnotate == Init /\ [][NextAnnotate]_vars

SpecIndex == Init /\ [][IndexRunsCall]_vars

Next == IndexRunsCall \/ Apply

Spec == Init /\ [][Next]_vars

\* One call of applyStyleToRange on a struct fresh from indexRuns.
ApplyFresh == calls = <<>> /\ Apply

NextOneCall == IndexRunsCall \/ ApplyFresh

SpecOneCall == Init /\ [][NextOneCall]_vars

--------------------------------------------------------------------------
\* applyStyleToRange iteration by iteration.  While a call is in its loop,
\* phase is "styling", arg holds the arguments of the call, struct the runs
\* and the map as the iterations so far have left them, pre the struct the
\* call was given, and ret the cursor: i, the value prev it had before the
\* iteration made last, the number iters of iterations made, and the branch
\* kind the iteration made last took.

\* The call is made; the test of lines 101-106 lets it enter its loop.
LoopBegin ==
    \E start \in 0 .. Len(struct.full), end \in 0 .. Len(struct.full), styler \in Stylers :
        /\ phase = "indexed"
        /\ Len(calls) < MaxCalls
        /\ start < end
        /\ ~RangeRejected(struct, start, end)
        /\ phase' = "styling"
        /\ arg' = [fn |-> "applyStyleToRange", start |-> start, end |-> end,
                   styler |-> styler]
        /\ ret' = [done |-> FALSE, i |-> start, prev |-> start, iters |-> 0,
                   threw |-> FALSE, kind |-> "none"]
        /\ pre' = struct
        /\ UNCHANGED <<variant, doc, struct, calls, mfull, dets, app>>

\* The call is made and returns at lines 101-106 without entering its loop.
LoopRejected ==
    \E start \in 0 .. Len(struct.full), end \in 0 .. Len(struct.full), styler \in Stylers :
        /\ phase = "indexed"
        /\ Len(calls) < MaxCalls
        /\ start < end
        /\ RangeRejected(struct, start, end)
        /\ calls' = Append(calls, [start |-> start, end |-> end,
                                   styler |-> styler, threw |-> FALSE])
        /\ pre' = struct
        /\ UNCHANGED <<variant, doc, phase, struct, mfull, dets, arg, ret, app>>

\* One iteration of the loop.
LoopStep ==
    /\ phase = "styling"
    /\ ~ret.threw
    /\ ret.i < arg.end
    /\ LET res == StyleStep(variant, [plist |-> struct.plist, map |-> struct.map],
                            ret.i, arg.end, arg.styler)
       IN  /\ struct' = [struct EXCEPT !.plist = res.plist, !.map = res.map]
           /\ ret' = [ret EXCEPT !.i = res.i, !.prev = ret.i, !.iters = @ + 1,
                                 !.threw = res.threw, !.kind = res.kind]
    /\ UNCHANGED <<variant, doc, phase, pre, calls, mfull, dets, arg, app>>

\* The loop is left, by its condition or by the TypeError, and the call is
\* over.
LoopExit ==
    /\ phase = "styling"
    /\ ret.threw \/ ret.i >= arg.end
    /\ phase' = "indexed"
    /\ calls' = Append(calls, [start |-> arg.start, end |-> arg.end,
                               styler |-> arg.styler, threw |-> ret.threw])
    /\ arg' = NoArg
    /\ ret' = NoRet
    /\ UNCHANGED <<variant, doc, struct, pre, mfull, dets, app>>

NextLoop == IndexRunsCall \/ LoopBegin \/ LoopRejected \/ LoopStep \/ LoopExit

SpecLoop == Init /\ [][NextLoop]_vars

--------------------------------------------------------------------------
\* The selective-join flattener on runs that begin and end with characters
\* of every class the tests of lines 78-80 tell apart.

\* Characters that are neither whitespace, nor of [a-zA-Z0-9], nor of the
\* punctuation list; "e'" stands for the one character U+00E9.
OtherChars == {"_", "+", "@", "e'"}

JoinTexts ==
    {<<c>> : c \in {"a", "B", "0"} \cup PunctChars \cup WhitespaceChars \cup OtherChars}
    \cup {<<"a", ".">>, <<".", "a">>, <<"a", " ">>, <<"_", "a">>}

JoinRunKinds ==
    {TextRun(t, NoProps) : t \in JoinTexts \cup {<<>>}}
    \cup {[rPr |-> NoProps, hasT |-> FALSE, t |-> <<>>, tab |-> 1, br |-> 0],
          [rPr |-> NoProps, hasT |-> TRUE, t |-> <<"a">>, tab |-> 0, br |-> 1]}

\* Every document of one to maxRuns such runs in non-empty paragraphs.
JoinDocs(maxRuns) ==
    UNION { { LET ps == CutParagraphs(rs, cuts, 1, <<>>)
              IN  IF Len(rs) \in cuts THEN SubSeq(ps, 1, Len(ps) - 1) ELSE ps
              : cuts \in SUBSET (1 .. (n - 1)), rs \in [1 .. n -> JoinRunKinds] }
            : n \in 1 .. maxRuns }

InitJoin ==
    /\ variant = "part_001"
    /\ doc \in JoinDocs(MaxRuns)
    /\ phase = "parsed"
    /\ struct = NoStruct
    /\ pre = NoStruct
    /\ calls = <<>>
    /\ mfull = <<>>
    /\ dets = <<>>
    /\ arg = NoArg
    /\ ret = NoRet
    /\ app = NoApp

SpecJoin == InitJoin /\ [][IndexRunsCall]_vars

--------------------------------------------------------------------------
\* annotateDocxWithDetections range by range.  phase is "ranging"; arg
\* holds the detections, ret the position of the two loops (detection d,
\* one-based, and range j, zero-based), the log of the ranges processed,
\* whether an exception has left the loops (failed) and whether the call
\* has returned a document (done); pre is the struct before the range
\* processed last.

\* The detection values: "b " reaches the end of a text that ends with a
\* tab or break space.
RangeValues == { <<"b", " ">>, <<".">>, <<"a">>, <<>> }

DetectionLists(maxDetections) ==
    UNION {[1 .. n -> RangeValues] : n \in 1 .. maxDetections}

\* Lines 241-259.
RangesBegin ==
    /\ phase = "parsed"
    /\ variant = "part_001"
    /\ phase' = "ranging"
    /\ mfull' \in ExtractRawText(variant, doc)
    /\ struct' = indexRuns(variant, doc)
    /\ pre' = struct'
    /\ arg' \in {[fn |-> "annotateDocxWithDetections", detections |-> ds] :
                    ds \in DetectionLists(MaxDetections)}
    /\ ret' = [done |-> FALSE, failed |-> FALSE, d |-> 1, j |-> 0, log |-> <<>>]
    /\ UNCHANGED <<variant, doc, calls, dets, app>>

\* One iteration of the loop over ranges (lines 280-301).
RangeStep ==
    /\ phase = "ranging"
    /\ ~ret.done /\ ~ret.failed
    /\ ret.d <= Len(arg.detections)
    /\ ret.j < RangeCount(mfull, arg.detections[ret.d])
    /\ LET res == ProcessRange(struct, arg.detections[ret.d], ret.j)
       IN  /\ struct' = [struct EXCEPT !.plist = res.plist, !.map = res.map]
           /\ ret' = [ret EXCEPT !.j = @ + 1,
                                 !.failed = (res.outcome = "escaped"),
                                 !.log = Append(@, [d |-> ret.d, j |-> ret.j,
                                                    outcome |-> res.outcome])]
    /\ pre' = struct
    /\ UNCHANGED <<variant, doc, phase, calls, mfull, dets, arg, app>>

\* The loop over ranges is over, or was not entered (lines 265-277): the
\* loop over detections goes on.
NextDetection ==
    /\ phase = "ranging"
    /\ ~ret.done /\ ~ret.failed
    /\ ret.d <= Len(arg.detections)
    /\ ret.j >= RangeCount(mfull, arg.detections[ret.d])
    /\ ret' = [ret EXCEPT !.d = @ + 1, !.j = 0]
    /\ UNCHANGED <<variant, doc, phase, struct, pre, calls, mfull, dets, arg, app>>

\* Lines 304-312: the document is rebuilt and returned.
AnnotateReturn ==
    /\ phase = "ranging"
    /\ ~ret.done /\ ~ret.failed
    /\ ret.d > Len(arg.detections)
    /\ ret' = [ret EXCEPT !.done = TRUE]
    /\ UNCHANGED <<variant, doc, phase, struct, pre, calls, mfull, dets, arg, app>>

NextRanges == RangesBegin \/ RangeStep \/ NextDetection \/ AnnotateReturn

SpecRanges == Init /\ [][NextRanges]_vars

--------------------------------------------------------------------------
\* The functions called by themselves, on arguments drawn from bounded sets.

\* The property mappings a run of a parsed document can carry.
ParsedProps ==
    {Undefined} \cup
    [b : BoldForms, i : BOOLEAN, u : {"none", "single", "double"},
     color : ColorValues, n : {0}]

IsBoldRedArgs == {[fn |-> "isBoldRed", rPr |-> pr] : pr \in ParsedProps}

OverlayArgs ==
    {[fn |-> f, rPr |-> pr] : f \in {"overlayExact", "overlayBrown"}, pr \in ParsedProps}

\* Every sequence over S of length at most n.
SeqsUpTo(S, n) == UNION {[1 .. k -> S] : k \in 0 .. n}

FindChars == {"a", "b"}

\* Texts of at most maxText characters, values of at most maxNeedle.
FindArgs(maxText, maxNeedle) ==
    {[fn |-> f, text |-> t, value |-> v] :
        f \in {"findAll", "findAllOccurrences"},
        t \in SeqsUpTo(FindChars, maxText), v \in SeqsUpTo(FindChars, maxNeedle)}

BoundaryTextChars == {"a", " ", "-", "_"}

\* "art" in "startup".
StartupArg ==
    [fn |-> "hasTokenBoundary", full |-> <<"s", "t", "a", "r", "t", "u", "p">>,
     start |-> 2, end |-> 5]

\* Texts of at most maxFull characters, with offsets inside and outside.
BoundaryArgs(maxFull) ==
    {[fn |-> "hasTokenBoundary", full |-> t, start |-> a, end |-> b] :
        t \in SeqsUpTo(BoundaryTextChars, maxFull),
        a \in -1 .. (maxFull + 1), b \in -1 .. (maxFull + 1)}
    \cup {StartupArg}

\* Detection values: too short to be phone-like, phone-like of
\* PhoneMinLen characters, and the latter with a leading plus.
ValueChars == {"1", "FW1", "-"}

EvalValues ==
    SeqsUpTo(ValueChars, 2)
    \cup [1 .. PhoneMinLen -> ValueChars]
    \cup {<<"+">> \o w : w \in [1 .. PhoneMinLen -> {"1", "-"}]}

DocTextChars == {"1", "2", "a", "+"}

\* Document texts of at most maxDocText characters, one detection.
EvaluateArgs(maxDocText) ==
    {[fn |-> "evaluateDetections", docText |-> t, detections |-> <<v>>] :
        t \in SeqsUpTo(DocTextChars, maxDocText), v \in EvalValues}

\* Values that are not phone-like, one of them with a space to trim, and
\* the empty value.
RepeatValues == { <<"a">>, <<"b">>, <<"a", " ">>, <<>> }

RepeatTextChars == {"a", "b", " "}

\* Document texts of at most maxDocText characters, one to maxDetections
\* detections, so that a value can be carried by several.
RepeatArgs(maxDocText, maxDetections) ==
    {[fn |-> "evaluateDetections", docText |-> t, detections |-> ds] :
        t \in SeqsUpTo(RepeatTextChars, maxDocText),
        ds \in UNION {[1 .. n -> RepeatValues] : n \in 1 .. maxDetections}}

InitFn ==
    /\ variant = "part_001"
    /\ doc = <<>>
    /\ phase = "function"
    /\ struct = NoStruct
    /\ pre = NoStruct
    /\ calls = <<>>
    /\ mfull = <<>>
    /\ dets = <<>>
    /\ arg \in IsBoldRedArgs \cup OverlayArgs \cup FindArgs(MaxText, MaxNeedle)
                \cup BoundaryArgs(MaxFull) \cup EvaluateArgs(MaxDocText)
                \cup RepeatArgs(MaxDocText, MaxDetections)
    /\ ret = NoRet
    /\ app = NoApp

\* isBoldRed(rPr) is called; no statement of it can raise.
CallIsBoldRed ==
    /\ arg.fn = "isBoldRed"
    /\ ~ret.done
    /\ ret' = [done |-> TRUE, value |-> isBoldRed(arg.rPr), threw |-> FALSE]
    /\ UNCHANGED <<variant, doc, phase, struct, pre, calls, mfull, dets, arg, app>>

\* overlayExact(rPr, wasBoldRed) or overlayBrown(rPr) is called.
CallOverlay ==
    /\ arg.fn \in {"overlayExact", "overlayBrown"}
    /\ ~ret.done
    /\ LET c == OverlayCall(arg.fn, arg.rPr)
       IN  ret' = [done |-> TRUE, out |-> c.out, argAfter |-> c.argAfter,
                   sameObject |-> c.sameObject]
    /\ UNCHANGED <<variant, doc, phase, struct, pre, calls, mfull, dets, arg, app>>

\* findAll(text, value) of openxml-edit.js or findAllOccurrences(text,
\* needle) of eval.js is called.
CallFind ==
    /\ arg.fn \in {"findAll", "findAllOccurrences"}
    /\ ~ret.done
    /\ ret' = [done |-> TRUE,
               value |-> IF arg.fn = "findAll" THEN findAll(arg.text, arg.value)
                         ELSE findAllOccurrences(arg.text, arg.value)]
    /\ UNCHANGED <<variant, doc, phase, struct, pre, calls, mfull, dets, arg, app>>

\* hasTokenBoundary(full, start, end) is called.
CallHasTokenBoundary ==
    /\ arg.fn = "hasTokenBoundary"
    /\ ~ret.done
    /\ ret' = [done |-> TRUE, value |-> hasTokenBoundary(arg.full, arg.start, arg.end)]
    /\ UNCHANGED <<variant, doc, phase, struct, pre, calls, mfull, dets, arg, app>>

\* evaluateDetections({docText, detections}) is called.
CallEvaluateDetections ==
    /\ arg.fn = "evaluateDetections"
    /\ ~ret.done
    /\ LET res == evaluateDetections(arg.docText, arg.detections)
       IN  ret' = [done |-> TRUE, stage |-> "evaluated", matched |-> res.matched,
                   notFound |-> res.notFound, partials |-> res.partials,
                   duplicates |-> Duplicates(arg.detections, res.matched),
                   ranges |-> <<>>]
    /\ UNCHANGED <<variant, doc, phase, struct, pre, calls, mfull, dets, arg, app>>

\* makeReviewedDocumentDocx is called with the matched list of the
\* evaluation as its matchedHits.
CallMakeReviewedDocument ==
    /\ arg.fn = "evaluateDetections"
    /\ ret.done
    /\ ret.stage = "evaluated"
    /\ ret' = [ret EXCEPT !.stage = "reviewed", !.ranges = ReviewRanges(ret.matched)]
    /\ UNCHANGED <<variant, doc, phase, struct, pre, calls, mfull, dets, arg, app>>

NextFn ==
    \/ CallIsBoldRed
    \/ CallOverlay
    \/ CallFind
    \/ CallHasTokenBoundary
    \/ CallEvaluateDetections
    \/ CallMakeReviewedDocument

SpecFn == InitFn /\ [][NextFn]_vars

--------------------------------------------------------------------------
\* mergeRanges and maskTextRanges called as maskDoc calls them (lines
\* 362-365), on a text of at most MaxMaskText characters and a list of at
\* most MaxRanges ranges inside it.

MaxMaskText == 3
MaxRanges == 3

MaskTextChars == {"a", " "}

\* The ranges [start, end] with 0 <= start <= end <= n.
RangesIn(n) == {r \in [start : 0 .. n, end : 0 .. n] : r.start <= r.end}

InitMask ==
    /\ variant = "part_001"
    /\ doc = <<>>
    /\ phase = "function"
    /\ struct = NoStruct
    /\ pre = NoStruct
    /\ calls = <<>>
    /\ mfull = <<>>
    /\ dets = <<>>
    /\ \E t \in SeqsUpTo(MaskTextChars, MaxMaskText) :
          \E n \in 0 .. MaxRanges : \E rs \in [1 .. n -> RangesIn(Len(t))] :
             arg = [fn |-> "maskTextRanges", text |-> t, ranges |-> rs]
    /\ ret = NoRet
    /\ app = NoApp

\* mergedRanges = mergeRanges(allRanges); maskTextRanges(docText, mergedRanges)
CallMask ==
    /\ arg.fn = "maskTextRanges"
    /\ ~ret.done
    /\ LET merged == mergeRanges(arg.ranges)
       IN  ret' = [done |-> TRUE, merged |-> merged,
                   value |-> maskTextRanges(arg.text, merged)]
    /\ UNCHANGED <<variant, doc, phase, struct, pre, calls, mfull, dets, arg, app>>

SpecMask == InitMask /\ [][CallMask]_vars

--------------------------------------------------------------------------
\* The App component (App.jsx).  app holds the state variables docxFile
\* and jsonFile (whether a file is selected), busy, and one record for
\* each call of onGenerate that got past line 22: pc, the number of the
\* await the call is suspended at or was last suspended at, done, whether
\* its finally block has run, and timer, the state of the timeout it set.
\* Between two events the component has been rendered again, so that the
\* button is disabled exactly when busy is true.

MaxClicks == 2

\* The awaits of onGenerate: lines 35, 38, 42, 67, 93 and 97.
AwaitCount == 6

InitApp ==
    /\ variant = "part_001"
    /\ doc = <<>>
    /\ phase = "app"
    /\ struct = NoStruct
    /\ pre = NoStruct
    /\ calls = <<>>
    /\ mfull = <<>>
    /\ dets = <<>>
    /\ arg = NoArg
    /\ ret = NoRet
    /\ app = [mounted |-> TRUE, docxFile |-> FALSE, jsonFile |-> FALSE,
              busy |-> FALSE, clicks |-> 0, runs |-> <<>>]

\* The user selects a file in one of the two inputs, or empties the
\* input (lines 128 and 134).
SelectFile ==
    /\ phase = "app"
    /\ \/ app' = [app EXCEPT !.docxFile = ~@]
       \/ app' = [app EXCEPT !.jsonFile = ~@]
    /\ UNCHANGED <<variant, doc, phase, struct, pre, calls, mfull, dets, arg, ret>>

\* The user clicks the button, which is enabled: onGenerate runs up to
\* its first await (lines 18-35), or returns at line 21.
Click ==
    /\ phase = "app"
    /\ ~app.busy
    /\ app.clicks < MaxClicks
    /\ IF ~app.docxFile \/ ~app.jsonFile
       THEN app' = [app EXCEPT !.clicks = @ + 1]
       ELSE app' = [app EXCEPT !.clicks = @ + 1,
                               !.busy = TRUE,
                               !.runs = Append(@, [pc |-> 1, done |-> FALSE, timer |-> "armed"])]
    /\ UNCHANGED <<variant, doc, phase, struct, pre, calls, mfull, dets, arg, ret>>

\* The finally block of lines 115-118 for run r.
Finally(r) ==
    [app EXCEPT !.busy = FALSE,
                !.runs[r] = [pc |-> @.pc, done |-> TRUE,
                             timer |-> IF @.timer = "armed" THEN "cleared" ELSE @.timer]]

\* The promise run r awaits is fulfilled: the run goes on to its next
\* await, or, after the last one, through lines 105-110 and the finally
\* block.
AwaitFulfilled ==
    \E r \in 1 .. Len(app.runs) :
        /\ phase = "app"
        /\ ~app.runs[r].done
        /\ IF app.runs[r].pc < AwaitCount
           THEN app' = [app EXCEPT !.runs[r].pc = @ + 1]
           ELSE app' = Finally(r)
        /\ UNCHANGED <<variant, doc, phase, struct, pre, calls, mfull, dets, arg, ret>>

\* The promise run r awaits is rejected, or a statement after it throws:
\* the catch of line 111 and the finally block run.
AwaitRejected ==
    \E r \in 1 .. Len(app.runs) :
        /\ phase = "app"
        /\ ~app.runs[r].done
        /\ app' = Finally(r)
        /\ UNCHANGED <<variant, doc, phase, struct, pre, calls, mfull, dets, arg, ret>>

\* The callback of the timeout run r set is called (lines 27-30); the run
\* itself stays suspended at its await.
TimerFires ==
    \E r \in 1 .. Len(app.runs) :
        /\ phase = "app"
        /\ app.runs[r].timer = "armed"
        /\ app' = [app EXCEPT !.busy = FALSE, !.runs[r].timer = "fired"]
        /\ UNCHANGED <<variant, doc, phase, struct, pre, calls, mfull, dets, arg, ret>>

NextApp == SelectFile \/ Click \/ AwaitFulfilled \/ AwaitRejected \/ TimerFires

SpecApp == InitApp /\ [][NextApp]_vars

--------------------------------------------------------------------------
\* Characters of the document.  Splitting a run keeps the concatenated
\* text of its paragraph, so a character is named by its paragraph and its
\* place in that text; a position of the flattened text names the character
\* its entry in the freshly indexed map points at.

ParaText(runs) ==
    Flatten([ri \in 1 .. Len(runs) |-> IF runs[ri].hasT THEN runs[ri].t ELSE <<>>])

ParaProps(runs) ==
    Flatten([ri \in 1 .. Len(runs) |->
               IF runs[ri].hasT THEN [k \in 1 .. Len(runs[ri].t) |-> runs[ri].rPr]
               ELSE <<>>])

Fresh == indexRuns(variant, doc)

RealPositions == {i \in 0 .. (Len(Fresh.map) - 1) : ~Synthetic(Fresh.map[i + 1].o)}

\* The properties, in plist, of the character at position i of the fresh
\* flattened text.
PropsAt(plist, i) ==
    LET e == Fresh.map[i + 1]
        k == Len(ParaText(SubSeq(doc[e.p + 1], 1, e.r))) + e.o + 1
    IN  ParaProps(plist[e.p + 1])[k]

TextOf(plist) == [pi \in 1 .. Len(plist) |-> ParaText(plist[pi])]

\* The positions covered by the occurrences findAll reports for value.
Occ(text, value) ==
    LET rs == findAll(text, value)
    IN  {i \in 0 .. (Len(text) - 1) : \E k \in 1 .. Len(rs) : rs[k].s <= i /\ i < rs[k].e}

Visible(rPr) == [rPr EXCEPT !.n = 0]

LastDet == dets[Len(dets)]

\* One call of applyStyleToRange on the freshly indexed struct has returned.
OneCallReturned == phase = "indexed" /\ Len(calls) = 1 /\ ~calls[1].threw

--------------------------------------------------------------------------
\* C1: after annotateDocxWithDetections has processed a single non-empty
\* detection value v that occurs as often in the extractor's text as in the
\* flattened text, a character carries the overlay if and only if it lies
\* inside one of the occurrences of v in the flattened text, and every
\* other character keeps its original properties.
C1_OverlayExactlyOnOccurrences ==
    (/\ phase = "annotating"
     /\ Len(dets) = 1
     /\ dets[1].value # <<>>
     /\ Len(findAll(mfull, dets[1].value)) = Len(findAll(struct.full, dets[1].value)))
    => \A i \in RealPositions :
          /\ (PropsAt(struct.plist, i).n >= 1) <=> (i \in Occ(struct.full, dets[1].value))
          /\ (i \notin Occ(struct.full, dets[1].value))
                => PropsAt(struct.plist, i) = PropsAt(doc, i)

\* C2: after applyStyleToRange on a fresh struct returns, every character
\* of [start, end) whose map entry was Real has had the styler applied to
\* the properties of its run exactly once.
C2_StyledExactlyOnce ==
    OneCallReturned
    => \A i \in RealPositions :
          (calls[1].start <= i /\ i < calls[1].end)
             => PropsAt(struct.plist, i) = StyledMiddle(calls[1].styler, PropsAt(doc, i))

\* C3: after applyStyleToRange on a fresh struct, every character outside
\* [start, end) has the same text and the same run properties as before.
C3_OutsideUnchanged ==
    OneCallReturned
    => /\ TextOf(struct.plist) = TextOf(doc)
       /\ \A i \in RealPositions :
             ~(calls[1].start <= i /\ i < calls[1].end)
                => PropsAt(struct.plist, i) = PropsAt(doc, i)

\* C4: two detections whose values occur at disjoint places of the same
\* paragraph: after both are processed, the characters restyled for the
\* second are exactly the characters of its occurrences, and the characters
\* of the first are restyled once.
C4_SecondDetectionSeesSplice ==
    (/\ phase = "annotating"
     /\ Len(dets) = 2
     /\ LET o1 == Occ(struct.full, dets[1].value)
            o2 == Occ(struct.full, dets[2].value)
        IN  /\ o1 # {} /\ o2 # {} /\ o1 \cap o2 = {}
            /\ \A i, j \in o1 \cup o2 : Fresh.map[i + 1].p = Fresh.map[j + 1].p
            /\ \A k \in 1 .. 2 :
                  Len(findAll(mfull, dets[k].value)) = Len(findAll(struct.full, dets[k].value)))
    => \A i \in RealPositions :
          /\ (PropsAt(struct.plist, i) # PropsAt(pre.plist, i))
                <=> (i \in Occ(struct.full, dets[2].value))
          /\ (i \in Occ(struct.full, dets[1].value)) => PropsAt(struct.plist, i).n = 1

\* C5: in every state after indexRuns and any calls of applyStyleToRange,
\* the Real entries of the map for each paragraph are, in map order, the
\* offsets 0 .. len-1 of its runs in run order, and the entries of one run
\* are contiguous in the map.
C5_RealEntriesOrdered ==
    (phase = "indexed")
    => /\ \A pi \in 1 .. Len(struct.plist) :
             SelectSeq(struct.map, LAMBDA e : e.p = pi - 1 /\ ~Synthetic(e.o))
                = ParagraphEntries(struct.plist[pi], pi - 1)
       /\ \A x, y, z \in 1 .. Len(struct.map) :
             (/\ x < y /\ y < z
              /\ ~Synthetic(struct.map[x].o) /\ ~Synthetic(struct.map[z].o)
              /\ struct.map[x].p = struct.map[z].p /\ struct.map[x].r = struct.map[z].r)
             => (/\ ~Synthetic(struct.map[y].o)
                 /\ struct.map[y].p = struct.map[x].p /\ struct.map[y].r = struct.map[x].r)

\* C6: after any sequence of applyStyleToRange calls the position map has
\* the length of the flattened text.
C6_MapLengthKept ==
    (phase = "indexed") => Len(struct.map) = Len(struct.full)

\* C7: flattening the document again after applyStyleToRange gives a text
\* of the same length whose characters outside [s, e) are those of the
\* flattened text before the call.
C7_ReflattenUnchangedOutside ==
    OneCallReturned
    => LET again == indexRuns(variant, struct.plist).full
       IN  /\ Len(again) = Len(struct.full)
           /\ \A i \in 0 .. (Len(struct.full) - 1) :
                 ~(calls[1].start <= i /\ i < calls[1].end)
                    => again[i + 1] = struct.full[i + 1]

\* C8: calling applyStyleToRange twice with the same range and the same
\* overlay leaves every character with the properties one call gave it.
C8_SecondCallChangesNothing ==
    (/\ phase = "indexed"
     /\ Len(calls) = 2
     /\ calls[1].start = calls[2].start
     /\ calls[1].end = calls[2].end
     /\ calls[1].styler = calls[2].styler
     /\ ~calls[1].threw /\ ~calls[2].threw)
    => \A i \in RealPositions :
          Visible(PropsAt(struct.plist, i)) = Visible(PropsAt(pre.plist, i))

\* C9: indexRuns returns a flattened text and a position map of equal
\* length, whatever runs the document contains.
C9_IndexLengthsEqual ==
    (phase \in {"indexed", "annotating"} /\ calls = <<>> /\ dets = <<>>)
    => Len(indexRuns(variant, doc).map) = Len(indexRuns(variant, doc).full)
       /\ Len(struct.map) = Len(struct.full)

\* C9 witness: an indexed document with a tab/break space, a join space
\* and real characters.
C9_Witness ==
    /\ phase = "indexed"
    /\ \E x, y, z \in 1 .. Len(struct.map) :
          struct.map[x].o = -1 /\ struct.map[y].o = -2 /\ struct.map[z].o >= 0

\* C10: processing a detection whose value does not occur in the flattened
\* text changes neither the runs nor the map, and raises nothing.
C10_AbsentValueNoOp ==
    (/\ phase = "annotating"
     /\ Len(dets) >= 1
     /\ findAll(struct.full, LastDet.value) = <<>>)
    => struct = pre /\ LastDet.caught = 0

\* C10 witness: the value is absent from the flattened text although the
\* extractor's text contains it, after an earlier detection was styled.
C10_Witness ==
    /\ phase = "annotating"
    /\ Len(dets) = 2
    /\ findAll(struct.full, LastDet.value) = <<>>
    /\ findAll(mfull, LastDet.value) # <<>>
    /\ struct.plist # doc
    /\ struct = pre

\* The text and visible properties of each run of a paragraph.
RunViews(runs) == [k \in 1 .. Len(runs) |-> [t |-> runs[k].t, rPr |-> Visible(runs[k].rPr)]]

\* The one call made so far had a range lying inside one run of the fresh
\* struct: every position of it is a Real entry of the same run.
InOneRun ==
    /\ OneCallReturned
    /\ \A i \in calls[1].start .. (calls[1].end - 1) :
          /\ ~Synthetic(Fresh.map[i + 1].o)
          /\ Fresh.map[i + 1].p = Fresh.map[calls[1].start + 1].p
          /\ Fresh.map[i + 1].r = Fresh.map[calls[1].start + 1].r

\* C11: for a fresh struct and a range inside one run with text txt at
\* offsets [o, o + n), applyStyleToRange replaces that run, in place and in
\* this order, by a before run txt[0:o] iff o > 0, a middle run
\* txt[o:o+n], and an after run txt[o+n:] iff o + n < len(txt); before and
\* after carry the original properties, the middle the styler's result;
\* every other run of the document is as it was.
C11_SplitInThree ==
    InOneRun
    => LET e == Fresh.map[calls[1].start + 1]
           orig == doc[e.p + 1][e.r + 1]
           txt == orig.t
           o == e.o
           n == calls[1].end - calls[1].start
           before == IF o > 0
                     THEN <<[t |-> SubSeq(txt, 1, o), rPr |-> orig.rPr]>> ELSE <<>>
           middle == <<[t |-> SubSeq(txt, o + 1, o + n),
                        rPr |-> Visible(StyledMiddle(calls[1].styler, orig.rPr))]>>
           after == IF o + n < Len(txt)
                    THEN <<[t |-> SubSeq(txt, o + n + 1, Len(txt)), rPr |-> orig.rPr]>>
                    ELSE <<>>
       IN  /\ Len(struct.plist) = Len(doc)
           /\ \A pi \in 1 .. Len(doc) : pi # e.p + 1 => struct.plist[pi] = doc[pi]
           /\ RunViews(struct.plist[e.p + 1])
                 = RunViews(SubSeq(doc[e.p + 1], 1, e.r))
                   \o before \o middle \o after
                   \o RunViews(SubSeq(doc[e.p + 1], e.r + 2, Len(doc[e.p + 1])))

\* C11 witness: the range is strictly inside a run, so that the run became
\* three runs, the run following it still in place.
C11_Witness ==
    /\ InOneRun
    /\ Fresh.map[calls[1].start + 1].o > 0
    /\ LET e == Fresh.map[calls[1].end]
       IN  /\ e.o + 1 < Len(doc[e.p + 1][e.r + 1].t)
           /\ Len(struct.plist[e.p + 1]) = Len(doc[e.p + 1]) + 2
           /\ e.r + 1 < Len(doc[e.p + 1])

\* The detection processed first located exactly one range in the
\* flattened text of the freshly indexed document.
FirstRangeLocated ==
    /\ phase = "annotating"
    /\ Len(dets) = 1
    /\ Len(findAll(struct.full, dets[1].value)) = 1
    /\ findAll(mfull, dets[1].value) # <<>>

\* Every position of [s, e) maps to a run that was bold and red in the
\* document as parsed.
OriginallyBoldRed(s, e) ==
    \A i \in s .. (e - 1) :
       isBoldRed(doc[Fresh.map[i + 1].p + 1][Fresh.map[i + 1].r + 1].rPr)

\* C12: in annotateDocxWithDetections on a freshly indexed document, the
\* located range gets the ground-truth overlay if every position of it
\* maps to a run that was bold and red, the non-ground-truth overlay
\* otherwise, and that one overlay is what every character of every run
\* the range covers carries afterwards.
C12_OverlayByGroundTruth ==
    FirstRangeLocated
    => LET rg == findAll(struct.full, dets[1].value)[1]
           styler == IF OriginallyBoldRed(rg.s, rg.e) THEN "exact" ELSE "brown"
       IN  \A i \in RealPositions :
              (rg.s <= i /\ i < rg.e)
                 => Visible(PropsAt(struct.plist, i))
                       = Visible(StyledMiddle(styler, PropsAt(doc, i)))

\* C13: isBoldRed returns true exactly when the mapping has the bold key,
\* in whatever form the parser produced it, and a color whose value is
\* FF0000, C00000 or E00000 in any letter case; it returns false for absent
\* properties, and it never throws.
C13_IsBoldRedExact ==
    (arg.fn = "isBoldRed" /\ ret.done)
    => /\ ~ret.threw
       /\ ret.value <=> (/\ arg.rPr # Undefined
                         /\ arg.rPr.b \in {"empty", "attrs"}
                         /\ arg.rPr.color \in {"FF0000", "ff0000", "Ff0000", "C00000",
                                                "c00000", "E00000", "e00000"})

\* C14: overlayExact and overlayBrown are pure: the mapping passed in is
\* not modified by the call, the mapping returned is a new one, it holds
\* the forced values (italic, single underline, FF0000 for overlayExact;
\* single underline, 7B3F00 for overlayBrown) and equals the input on
\* every other key.
C14_OverlaysPure ==
    (arg.fn \in {"overlayExact", "overlayBrown"} /\ ret.done)
    => LET in == IF arg.rPr = Undefined THEN NoProps ELSE arg.rPr
       IN  /\ ret.argAfter = arg.rPr
           /\ ~ret.sameObject
           /\ ret.out.u = "single"
           /\ ret.out.b = in.b
           /\ ret.out.n = in.n
           /\ arg.fn = "overlayExact" => (ret.out.i /\ ret.out.color = "FF0000")
           /\ arg.fn = "overlayBrown" => (ret.out.i = in.i /\ ret.out.color = "7B3F00")

\* value occurs in text at the zero-based position j.
OccursAt(text, value, j) ==
    /\ j >= 0
    /\ j + Len(value) <= Len(text)
    /\ SubSeq(text, j + 1, j + Len(value)) = value

\* C15: findAll and findAllOccurrences return exactly the ranges of a
\* greedy scan from the left: every range [s, e) has text[s:e] = value,
\* each range ends at or before the start of the next, each is the
\* leftmost occurrence at or after the end of the one before it, and no
\* occurrence at or after the end of the last range is missed; an empty
\* value gives no range.
C15_GreedyNonOverlapping ==
    (arg.fn \in {"findAll", "findAllOccurrences"} /\ ret.done)
    => LET rs == ret.value
           prevEnd(k) == IF k = 1 THEN 0 ELSE rs[k - 1].e
           lastEnd == IF rs = <<>> THEN 0 ELSE rs[Len(rs)].e
       IN  IF arg.value = <<>> THEN rs = <<>>
           ELSE /\ \A k \in 1 .. Len(rs) :
                     /\ rs[k].e = rs[k].s + Len(arg.value)
                     /\ OccursAt(arg.text, arg.value, rs[k].s)
                     /\ prevEnd(k) <= rs[k].s
                     /\ \A j \in prevEnd(k) .. (rs[k].s - 1) :
                           ~OccursAt(arg.text, arg.value, j)
                /\ \A j \in lastEnd .. Len(arg.text) : ~OccursAt(arg.text, arg.value, j)

\* C15 witness: two ranges were returned and an occurrence overlapping the
\* first was passed over.
C15_Witness ==
    /\ arg.fn \in {"findAll", "findAllOccurrences"}
    /\ ret.done
    /\ Len(ret.value) = 2
    /\ OccursAt(arg.text, arg.value, ret.value[1].s + 1)

\* The boundary class: whitespace and . , ; : ! ? ( ) [ ] { } < > $ " ' -
BoundaryClass == WhitespaceChars \cup PunctChars

\* C16: hasTokenBoundary(full, start, end) is true if and only if the
\* character at start - 1 is absent (start <= 0) or in the boundary class,
\* and the character at end is absent (end >= length) or in the boundary
\* class; "art" in "startup" at [2, 5) is rejected.
C16_TokenBoundaryIff ==
    (arg.fn = "hasTokenBoundary" /\ ret.done)
    => /\ ret.value <=>
            (/\ \/ arg.start <= 0
                \/ (arg.start - 1 < Len(arg.full) /\ arg.full[arg.start] \in BoundaryClass)
             /\ \/ arg.end >= Len(arg.full)
                \/ (arg.end >= 0 /\ arg.full[arg.end + 1] \in BoundaryClass))
       /\ arg = StartupArg => ~ret.value

\* C16 witness: a range accepted with a character of the class on each
\* side, neither at an edge of the text.
C16_Witness ==
    /\ arg.fn = "hasTokenBoundary"
    /\ ret.done
    /\ ret.value
    /\ 0 < arg.start /\ arg.start < arg.end /\ arg.end < Len(arg.full)
    /\ arg.full[arg.start] = " "
    /\ arg.full[arg.end + 1] = "-"

\* The normalized form of value v occurs in the normalized form of text:
\* it has at least one character and is a substring of it.
OccursNormalized(text, v) ==
    LET normDoc == normalizePhone(text)
        normVal == normalizePhone(v)
    IN  /\ normVal # <<>>
        /\ \E j \in 0 .. Len(normDoc) : OccursAt(normDoc, normVal, j)

LastCall == calls[Len(calls)]

\* Every position of the range of the call made last had a synthetic entry
\* in the map the call was given.
AllSyntheticCall ==
    /\ phase = "indexed"
    /\ calls # <<>>
    /\ LastCall.end <= Len(pre.map)
    /\ \A i \in LastCall.start .. (LastCall.end - 1) : Synthetic(pre.map[i + 1].o)

\* C18: in applyStyleToRange an iteration whose cursor entry is synthetic
\* changes nothing and advances the cursor by one: from any struct the
\* calls have produced, the loop from cursor i gives what the loop from
\* i + 1 gives; and a call whose range holds synthetic positions only
\* leaves the runs and the map as they were.
C18_SyntheticSkipped ==
    /\ (phase = "indexed")
       => \A styler \in Stylers, end \in 1 .. Len(struct.map) :
             \A i \in 0 .. (end - 1) :
                Synthetic(struct.map[i + 1].o)
                => StyleLoop(variant, [plist |-> struct.plist, map |-> struct.map],
                             i, end, styler)
                   = StyleLoop(variant, [plist |-> struct.plist, map |-> struct.map],
                               i + 1, end, styler)
    /\ AllSyntheticCall => (struct = pre /\ ~LastCall.threw)

\* C18 witness: after a call that styled something, a call on a range
\* that is one join space left everything as it was.
C18_Witness ==
    /\ AllSyntheticCall
    /\ Len(calls) = 2
    /\ struct.plist # doc
    /\ pre.map[LastCall.start + 1].o = -2
    /\ struct = pre

\* The index of the last of the runs of cur, from index from on, that are
\* the fragments of the original run orig (their texts concatenate to its
\* text; a run without characters is never split); 0 if there are none.
GroupEnd(orig, cur, from) ==
    IF from > Len(cur) THEN 0
    ELSE IF orig.t = <<>> THEN from
    ELSE LET es == {e \in from .. Len(cur) :
                      Flatten([x \in 1 .. (e - from + 1) |-> cur[from + x - 1].t]) = orig.t}
         IN  IF es = {} THEN 0 ELSE CHOOSE e \in es : \A f \in es : e <= f

\* From original run k and current run from on: the tabs and breaks of
\* each original run are on the first of its fragments and on no other.
RECURSIVE ChildrenKept(_, _, _, _)
ChildrenKept(origRuns, cur, k, from) ==
    IF k > Len(origRuns) THEN from = Len(cur) + 1
    ELSE LET e == GroupEnd(origRuns[k], cur, from)
         IN  /\ e # 0
             /\ cur[from].tab = origRuns[k].tab
             /\ cur[from].br = origRuns[k].br
             /\ \A x \in (from + 1) .. e : cur[x].tab = 0 /\ cur[x].br = 0
             /\ ChildrenKept(origRuns, cur, k + 1, e + 1)

\* C19: after any sequence of applyStyleToRange calls every child of an
\* original run other than its properties and its text is on exactly one
\* run of the paragraph, the first fragment derived from that run.
C19_ChildrenOnFirstFragment ==
    (phase = "indexed")
    => /\ Len(struct.plist) = Len(doc)
       /\ \A pi \in 1 .. Len(doc) : ChildrenKept(doc[pi], struct.plist[pi], 1, 1)

\* C19 witness: a run with a break has been split by two calls into three
\* fragments or more, or into two with a split of the run after it.
C19_Witness ==
    /\ phase = "indexed"
    /\ Len(calls) = 2
    /\ doc[1][1].br = 1
    /\ GroupEnd(doc[1][1], struct.plist[1], 1) >= 2
    /\ struct.plist[1][1].br = 1
    /\ pre.plist # doc
    /\ struct.plist # pre.plist

\* C20: for a document of two or more paragraphs indexRuns puts no
\* character between the last character of one paragraph and the first of
\* the next: the flattened text is the concatenation of what each
\* paragraph contributes by itself, and every join space has an entry of
\* its own paragraph before it.
C20_NoParagraphSeparator ==
    (phase = "indexed" /\ calls = <<>> /\ Len(doc) >= 2)
    => /\ struct.full
            = Flatten([pi \in 1 .. Len(doc) |-> indexRuns(variant, <<doc[pi]>>).full])
       /\ \A x \in 1 .. Len(struct.map) :
             struct.map[x].o = -2
             => (x > 1 /\ struct.map[x - 1].p = struct.map[x].p)

\* The iteration made last found no entry at the cursor, or an entry
\* naming a paragraph or a run that does not exist.
LastIterationUnresolved ==
    /\ phase = "styling"
    /\ ret.iters > 0
    /\ ret.kind = "unresolved"

\* C21: in both variants of applyStyleToRange an iteration whose cursor
\* has no map entry, or an entry naming a paragraph or run that does not
\* exist, raises nothing, moves the cursor on by one and leaves the loop
\* running; no call ends by an exception.
C21_UnresolvableSkipped ==
    /\ LastIterationUnresolved => (~ret.threw /\ ret.i = ret.prev + 1)
    /\ \A k \in 1 .. Len(calls) : ~calls[k].threw

\* C22: the loop of applyStyleToRange terminates on every struct the
\* calls made before have left and for every range: each iteration that
\* does not leave the loop by an exception moves the cursor forward, by
\* one on a skipped position and by take >= 1 on a split, never past end,
\* so that at most end - start iterations are made although the map is
\* rewritten inside the loop.
C22_CursorAdvances ==
    (phase = "styling")
    => /\ arg.start <= ret.i /\ ret.i <= arg.end
       /\ ret.iters <= arg.end - arg.start
       /\ (ret.iters > 0 /\ ~ret.threw)
             => /\ ret.prev < ret.i
                /\ ret.kind # "split" => ret.i = ret.prev + 1
       /\ ret.threw => ret.i = ret.prev

\* C22 witness: on a struct an earlier call has rewritten, a second
\* iteration of a call split a run and took two characters or more, the
\* map having been rewritten inside the loop.
C22_Witness ==
    /\ phase = "styling"
    /\ Len(calls) = 1
    /\ pre.plist # doc
    /\ ret.iters >= 2
    /\ ret.kind = "split"
    /\ ret.i >= ret.prev + 2
    /\ struct.map # pre.map

\* The characters before which the claim lets no join space be made:
\* whitespace and . , ; : ! ? ( ) [ ] { } < > $ " ' -
NoJoinBefore ==
    WhitespaceChars \cup {".", ",", ";", ":", "!", "?", "(", ")", "[", "]", "{", "}",
                          "<", ">", "$", "\"", "'", "-"}

\* The places in the map of the join entries attributed to run r of
\* paragraph p (both zero-based).
JoinsOf(p, r) ==
    {x \in 1 .. Len(struct.map) : struct.map[x] = [p |-> p, r |-> r, o |-> -2]}

\* C23: in indexRuns of part_001 a run gets at most one join space, a run
\* without text or with empty text none, and a run with text gets one, put
\* directly before its first character, attributed to that run and marked
\* synthetic, if and only if the text accumulated so far is not empty, its
\* last character is an ASCII letter or digit, and the run's first
\* character is neither whitespace nor one of the listed punctuation
\* characters.
C23_SelectiveJoin ==
    (phase = "indexed" /\ variant = "part_001" /\ calls = <<>>)
    => \A pi \in 1 .. Len(doc) : \A ri \in 1 .. Len(doc[pi]) :
          LET run == doc[pi][ri]
              joins == JoinsOf(pi - 1, ri - 1)
              firsts == {x \in 1 .. Len(struct.map) :
                            struct.map[x] = [p |-> pi - 1, r |-> ri - 1, o |-> 0]}
          IN  /\ Cardinality(joins) <= 1
              /\ \A x \in joins : struct.full[x] = " "
              /\ IF ~run.hasT \/ run.t = <<>> THEN joins = {}
                 ELSE /\ Cardinality(firsts) = 1
                      /\ \A k \in firsts :
                            LET nAcc == k - 1 - Cardinality(joins)
                            IN  /\ joins \subseteq {k - 1}
                                /\ (joins # {})
                                      <=> (/\ nAcc > 0
                                           /\ struct.full[nAcc] \in AlnumChars
                                           /\ run.t[1] \notin NoJoinBefore)

\* C23 witness: a join space before a run that begins with a character
\* which is neither a letter nor a digit, after a run that ends with a
\* letter or digit but begins with punctuation and got no join space.
C23_Witness ==
    /\ phase = "indexed"
    /\ variant = "part_001"
    /\ Len(doc) = 1
    /\ Len(doc[1]) = 2
    /\ doc[1][1].t = <<".", "a">>
    /\ doc[1][2].t = <<"e'">>
    /\ struct.full = <<".", "a", " ", "e'">>
    /\ struct.map[3] = [p |-> 0, r |-> 1, o |-> -2]

\* The ranges annotateDocxWithDetections has to go through, in order: for
\* each detection in turn, one for each occurrence of its value in the
\* extractor's text.
ExpectedRanges ==
    Flatten([d \in 1 .. Len(arg.detections) |->
               [x \in 1 .. RangeCount(mfull, arg.detections[d]) |-> [d |-> d, j |-> x - 1]]])

\* C24: in annotateDocxWithDetections of part_001 an exception raised
\* while a range is classified or spliced ends the work on that range
\* only: no exception leaves the loops, the ranges are gone through in
\* order whatever happened to the ones before, and when the call returns
\* its document every range of every detection has been gone through.
C24_CaughtPerRange ==
    (phase = "ranging")
    => /\ ~ret.failed
       /\ Len(ret.log) <= Len(ExpectedRanges)
       /\ \A x \in 1 .. Len(ret.log) :
             /\ ret.log[x].d = ExpectedRanges[x].d
             /\ ret.log[x].j = ExpectedRanges[x].j
             /\ ret.log[x].outcome \in {"absent", "styled", "caught"}
       /\ ret.done => Len(ret.log) = Len(ExpectedRanges)

\* C24 witness: the call returned after an exception was caught for the
\* one range of the first detection and a range of the second detection
\* was styled.
C24_Witness ==
    /\ phase = "ranging"
    /\ ret.done
    /\ Len(ret.log) = 2
    /\ ret.log[1] = [d |-> 1, j |-> 0, outcome |-> "caught"]
    /\ ret.log[2] = [d |-> 2, j |-> 0, outcome |-> "styled"]
    /\ struct.plist # pre.plist

\* C28: when applyStyleToRange throws while a range is processed, the
\* runs and the position map are what they were before that range was
\* started.
C28_AllOrNothing ==
    (/\ phase = "ranging"
     /\ ret.log # <<>>
     /\ ret.log[Len(ret.log)].outcome = "caught")
    => (struct.plist = pre.plist /\ struct.map = pre.map)

\* The occurrences of val in text that have a token boundary on both
\* sides (every occurrence, for a value with an at sign).
ValidOccurrences(text, val) ==
    SelectSeq(findAllOccurrences(text, val),
              LAMBDA h : hasTokenBoundary(text, h.s, h.e) \/ isEmail(val))

\* The entries of the duplicates list for value val.
ListedAs(val) == {x \in 1 .. Len(ret.duplicates) : ret.duplicates[x].value = val}

\* C25: evaluateDetections lists a value in duplicates if and only if
\* more detections carry it than it has boundary-valid occurrences in the
\* document text, and the entry of a listed value gives the number of
\* detections as countInJson, the number of occurrences as countInDoc and
\* their difference as extra.  Stated for detections whose values are not
\* phone-like and have no whitespace to trim.
C25_DuplicatesIffMoreListed ==
    (/\ arg.fn = "evaluateDetections"
     /\ ret.done
     /\ \A k \in 1 .. Len(arg.detections) :
           /\ ~isPhone(nfkc(arg.detections[k]))
           /\ trim(arg.detections[k]) = arg.detections[k])
    => \A k \in 1 .. Len(arg.detections) :
          LET val == nfkc(arg.detections[k])
              inJson == Cardinality({x \in 1 .. Len(arg.detections) :
                                        nfkc(arg.detections[x]) = val})
              inDoc == Len(ValidOccurrences(nfkc(arg.docText), val))
          IN  /\ (ListedAs(val) # {}) <=> (inJson > inDoc)
              /\ \A x \in ListedAs(val) :
                    /\ ret.duplicates[x].countInJson = inJson
                    /\ ret.duplicates[x].countInDoc = inDoc
                    /\ ret.duplicates[x].extra = inJson - inDoc

\* Position i (zero-based) lies in one of the ranges rs.
Covered(rs, i) == \E k \in 1 .. Len(rs) : rs[k].start <= i /\ i < rs[k].end

\* C26: for a text and a list R of ranges inside it, in any order and
\* with overlaps, contact and repetitions, mergeRanges(R) is sorted by
\* start with every range ending before the next begins, and covers the
\* positions R covers and no other; maskTextRanges(text, mergeRanges(R))
\* has the length of text, 'X' at every covered position that is not
\* whitespace, and the character of text everywhere else.
C26_MaskMerged ==
    (arg.fn = "maskTextRanges" /\ ret.done)
    => /\ \A k \in 1 .. Len(ret.merged) : ret.merged[k].start <= ret.merged[k].end
       /\ \A k \in 1 .. (Len(ret.merged) - 1) : ret.merged[k].end < ret.merged[k + 1].start
       /\ \A i \in 0 .. (Len(arg.text) - 1) :
             Covered(ret.merged, i) <=> Covered(arg.ranges, i)
       /\ Len(ret.value) = Len(arg.text)
       /\ \A i \in 0 .. (Len(arg.text) - 1) :
             ret.value[i + 1] = IF Covered(arg.ranges, i) /\ arg.text[i + 1] \notin WhitespaceChars
                                THEN "X" ELSE arg.text[i + 1]

\* C26 witness: three ranges out of order, two overlapping and the third
\* touching them, were merged into one that holds a space, which was kept.
C26_Witness ==
    /\ arg.fn = "maskTextRanges"
    /\ ret.done
    /\ arg.text = <<"a", " ", "a">>
    /\ arg.ranges = <<[start |-> 2, end |-> 3], [start |-> 0, end |-> 2],
                      [start |-> 1, end |-> 2]>>
    /\ ret.merged = <<[start |-> 0, end |-> 3]>>
    /\ ret.value = <<"X", " ", "X">>

\* C27: in every state during and after any sequence of applyStyleToRange
\* calls, whatever their ranges, each paragraph's runs concatenate in run
\* order to the text they had after indexRuns, and a paragraph never has
\* fewer runs than before the call or than at the start.
C27_TextConserved ==
    (phase \in {"indexed", "styling"})
    => /\ Len(struct.plist) = Len(doc)
       /\ \A pi \in 1 .. Len(doc) :
             /\ ParaText(struct.plist[pi]) = ParaText(doc[pi])
             /\ Len(struct.plist[pi]) >= Len(pre.plist[pi])
             /\ Len(pre.plist[pi]) >= Len(doc[pi])

\* C27 witness: two calls with overlapping ranges, the second one working
\* on the map the first one rewrote, have cut the first paragraph into at
\* least three runs more than it had.
C27_Witness ==
    /\ phase = "indexed"
    /\ Len(calls) = 2
    /\ calls[1].start < calls[2].end
    /\ calls[2].start < calls[1].end
    /\ calls[1] # calls[2]
    /\ pre.plist # doc
    /\ struct.plist # pre.plist
    /\ Len(struct.plist[1]) >= Len(doc[1]) + 3

\* Entry e names a run of plist and, unless it is synthetic, a character
\* of that run's text.
Resolves(plist, e) ==
    /\ 0 <= e.p /\ e.p < Len(plist)
    /\ 0 <= e.r /\ e.r < Len(plist[e.p + 1])
    /\ ~Synthetic(e.o)
          => /\ plist[e.p + 1][e.r + 1].hasT
             /\ 0 <= e.o /\ e.o < Len(plist[e.p + 1][e.r + 1].t)

\* C29: after indexRuns and in every state during and after any sequence
\* of applyStyleToRange calls, every entry of the position map names an
\* existing paragraph and an existing run of it, and every entry that is
\* not synthetic an offset inside the current text of that run; an
\* iteration that splits a run takes at least one character.
C29_EntriesResolve ==
    (phase \in {"indexed", "styling"})
    => /\ \A x \in 1 .. Len(struct.map) : Resolves(struct.plist, struct.map[x])
       /\ (phase = "styling" /\ ret.iters > 0 /\ ret.kind = "split")
             => ret.i >= ret.prev + 1

\* C29 witness: inside a second call an iteration has split a run and
\* rewritten the map of its paragraph, the map still holding a synthetic
\* entry of another paragraph.
C29_Witness ==
    /\ phase = "styling"
    /\ Len(calls) = 1
    /\ pre.plist # doc
    /\ ret.kind = "split"
    /\ struct.map # pre.map
    /\ \E x \in 1 .. Len(struct.map) : Synthetic(struct.map[x].o)

\* The runs of onGenerate whose finally block has not run yet.
RunsInProgress == {r \in 1 .. Len(app.runs) : ~app.runs[r].done}

\* C30: in the App component at most one run of onGenerate is in progress
\* at any time, and busy is true from the moment a run sets it until that
\* run's finally block has run, whatever the order of the fulfilments of
\* its awaits, the callback of its timeout and the clicks of the user.
C30_OneRunAtATime ==
    (phase = "app")
    => /\ Cardinality(RunsInProgress) <= 1
       /\ RunsInProgress # {} => app.busy

==========================================================================
